---- MODULE Spec2Model ----
(***************************************************************************)
(* State-machine model of the conversation controller (ChatComponent) of  *)
(* the mining-intelligence client, together with the collaborators it     *)
(* calls: the session store (HistoryService), the query/upload service     *)
(* (ApiService) and the audio adapter (AudioService).                      *)
(*                                                                         *)
(* Text is kept run-length encoded: a sequence of runs [ch, n], n copies   *)
(* of the character ch, no two adjacent runs of the same character.  trim, *)
(* substring and endsWith are computed on it as the code computes them.  A *)
(* fixed literal of the source is abbreviated to one symbol.  The          *)
(* timestamps of messages are left out: no operation reads them.  A        *)
(* session's updatedAt is the logical time of the last write to it.        *)
(***************************************************************************)
EXTENDS Integers, Sequences, FiniteSets, TLC

VARIABLES
    messages,        \* ChatComponent.messages: the in-memory message list
    userInput,       \* ChatComponent.userInput: a JavaScript value
    isLoading,       \* ChatComponent.isLoading: TRUE = Awaiting, FALSE = Idle
    includeAudio,    \* ChatComponent.includeAudio
    currentSession,  \* ChatComponent.currentSession: a session id, or NoSession
    language,        \* ChatComponent.language
    store,           \* the persisted session collection, head first
    inflight,        \* queries sent by sendQuery and not yet completed
    uploads,         \* files sent by uploadFile and not yet completed
    components,      \* the ChartsComponent instances: inputs, handle, timers
    registry         \* the live charts of the charting engine

vars == <<messages, userInput, isLoading, includeAudio, currentSession,
          language, store, inflight, uploads, components, registry>>

\* the state as one record: the handlers are functions of it
Here ==
    [messages |-> messages, userInput |-> userInput, isLoading |-> isLoading,
     includeAudio |-> includeAudio, currentSession |-> currentSession,
     language |-> language, store |-> store, inflight |-> inflight,
     uploads |-> uploads]

\* what a handler leaves behind: the state c, the service calls it issued in
\* order, and whether it ended in an uncaught exception
Out(c, calls, fault) == [c |-> c, calls |-> calls, fault |-> fault]

(***************************************************************************)
(* Bounds of the model.                                                    *)
(***************************************************************************)
MaxMsgs == 2        \* new work starts only while the list and the pending
                    \* completions stay within this many messages
MaxStored == 3      \* a query is sent only while the store holds fewer
                    \* messages (pending responses counted) than this
MaxTimers == 2      \* a chart component's inputs change only while it has
                    \* fewer deferred renders pending than this

TitleLen == 30      \* substring(0, 30) of the auto-title

(***************************************************************************)
(* JavaScript values that reach userInput and event.detail.                *)
(***************************************************************************)
Str(s) == [t |-> "string", s |-> s, n |-> 0]
Null == [t |-> "null", s |-> <<>>, n |-> 0]
\* a string that is a session id; the model numbers the ids
Id(i) == [t |-> "id", s |-> <<>>, n |-> i]

Run(ch, n) == [ch |-> ch, n |-> n]

\* n copies of ch
Rep(ch, n) == IF n = 0 THEN <<>> ELSE <<Run(ch, n)>>

\* a literal of the source, as one symbol
Lit(str) == <<Run(str, 1)>>

\* string concatenation
Cat(a, b) ==
    IF a = <<>> THEN b
    ELSE IF b = <<>> THEN a
    ELSE IF a[Len(a)].ch = Head(b).ch
         THEN SubSeq(a, 1, Len(a) - 1)
              \o <<Run(Head(b).ch, a[Len(a)].n + Head(b).n)>> \o Tail(b)
         ELSE a \o b

RECURSIVE TextLen(_)
TextLen(s) == IF s = <<>> THEN 0 ELSE Head(s).n + TextLen(Tail(s))

LongText == Rep("x", TitleLen + 1)
Texts == {Rep(" ", 1), LongText}

\* String.prototype.trim
Trim(s) ==
    LET a == IF s # <<>> /\ Head(s).ch = " " THEN Tail(s) ELSE s
    IN  IF a # <<>> /\ a[Len(a)].ch = " " THEN SubSeq(a, 1, Len(a) - 1) ELSE a

\* String.prototype.substring(0, n)
RECURSIVE Substring0(_, _)
Substring0(s, n) ==
    IF n = 0 \/ s = <<>> THEN <<>>
    ELSE IF Head(s).n <= n
         THEN <<Head(s)>> \o Substring0(Tail(s), n - Head(s).n)
         ELSE <<Run(Head(s).ch, n)>>

(***************************************************************************)
(* Messages.  An absent optional field is "undefined".                     *)
(***************************************************************************)
Undefined == "undefined"

Msg(role, content, vis, recs, audio) ==
    [role |-> role, content |-> content, visualizations |-> vis,
     recommendations |-> recs, audio |-> audio]

Greeting == Msg("assistant", Lit("Hello! I'm your Mining Intelligence Assistant."),
                Undefined, Undefined, Undefined)

Cleared == Msg("assistant", Lit("Chat cleared. How can I help you with mining operations today?"),
               Undefined, Undefined, Undefined)

\* the apology with a visualization payload attached
ApologyWithPayload ==
    Msg("assistant", Lit("Sorry, I encountered an error. Please try again."),
        "viz", Undefined, Undefined)

Apology == Msg("assistant", Lit("Sorry, I encountered an error. Please try again."),
               Undefined, Undefined, Undefined)

Fallback(query) ==
    Msg("assistant",
        Cat(Cat(Lit("I analyzed your query about \""), query),
            Lit("\". Here are the current mining operations insights:")),
        "sample kpis and charts", "sample recommendations", Undefined)

NoSession == 0
Languages == {"en", "hi"}

Call(op, id, text, lang, flag) ==
    [op |-> op, id |-> id, text |-> text, lang |-> lang, flag |-> flag]

(***************************************************************************)
(* The session store (HistoryService).                                     *)
(***************************************************************************)
NewChat == Lit("New chat")

Known(st, id) == \E i \in 1..Len(st) : st[i].id = id

\* the id generator: an id no session of the store has
NewId(st) == Len(st) + 1

\* Date.now(): the clock of the model is logical.  It advances between the
\* callbacks; the writes of one callback, which runs to completion within the
\* clock's resolution, carry the same time, later than every earlier write.
RECURSIVE Latest(_)
Latest(st) ==
    IF st = <<>> THEN 0
    ELSE IF Head(st).updatedAt > Latest(Tail(st)) THEN Head(st).updatedAt
         ELSE Latest(Tail(st))

Now(st) == Latest(st) + 1

NewSession(st, title, lang, now) ==
    [id |-> NewId(st),
     title |-> IF Trim(title) = <<>> THEN NewChat ELSE title,
     language |-> lang,
     updatedAt |-> now,
     messages |-> <<>>]

\* HistoryService.create: the new session goes to the head of the collection
HistCreate(st, title, lang, now) == <<NewSession(st, title, lang, now)>> \o st

\* HistoryService.appendMessage: ignored when the id is unknown; the session
\* stays at its place in the collection
HistAppend(st, id, rec, now) ==
    [i \in 1..Len(st) |->
        IF st[i].id = id
        THEN [st[i] EXCEPT !.messages = Append(@, rec), !.updatedAt = now]
        ELSE st[i]]

\* HistoryService.rename: a blank title keeps the old one, updatedAt advances
HistRename(st, id, title, now) ==
    [i \in 1..Len(st) |->
        IF st[i].id = id
        THEN [st[i] EXCEPT !.title = IF Trim(title) # <<>> THEN Trim(title) ELSE @,
                           !.updatedAt = now]
        ELSE st[i]]

NoSessionRec ==
    [id |-> NoSession, title |-> <<>>, language |-> "", updatedAt |-> 0,
     messages |-> <<>>]

\* HistoryService.load: the session, or NoSessionRec (a falsy result)
HistLoad(st, d) ==
    IF d.t = "id" /\ Known(st, d.n)
    THEN st[CHOOSE i \in 1..Len(st) : st[i].id = d.n]
    ELSE NoSessionRec

SessionOf(st, id) == HistLoad(st, Id(id))

(***************************************************************************)
(* The responses of the query service (sendQuery's contract).              *)
(***************************************************************************)
Resp(success, answer, vis, recs, audio) ==
    [kind |-> "response", success |-> success, answer |-> answer,
     visualizations |-> vis, recommendations |-> recs, audio |-> audio]

\* the responses the service delivers here: an answer with visualizations and
\* audio, and a reported failure
Responses ==
    {Resp(TRUE, Lit("answer"), "viz", "recs", "audio_ok"),
     Resp(FALSE, <<>>, Undefined, Undefined, Undefined)}

\* an answer without visualizations, whose audio synthesis failed
SilentResponse == Resp(TRUE, Lit("answer"), Undefined, "recs", "audio_failed")

\* response.response.audio?.success
AudioSuccess(audio) == audio = "audio_ok"

RemoveAt(s, i) == SubSeq(s, 1, i - 1) \o SubSeq(s, i + 1, Len(s))

(***************************************************************************)
(* The chart renderer (ChartsComponent): the records it is given.  A       *)
(* record is the sequence of its fields in key order, a field a key and a  *)
(* JavaScript value: a number, a string, or undefined for a key the record *)
(* lacks.                                                                  *)
(***************************************************************************)
Number(n) == [t |-> "number", n |-> n, s |-> ""]
Text(s) == [t |-> "string", n |-> 0, s |-> s]
Missing == [t |-> "undefined", n |-> 0, s |-> ""]

F(key, value) == [k |-> key, v |-> value]

\* d[key]
Field(d, key) ==
    IF \E i \in 1..Len(d) : d[i].k = key
    THEN d[CHOOSE i \in 1..Len(d) : d[i].k = key].v
    ELSE Missing

\* Object.keys(d)
Keys(d) == [i \in 1..Len(d) |-> d[i].k]

\* the values JavaScript takes for true in a condition
Truthy(v) == v # Missing /\ v # Number(0) /\ v # Text("")

\* a || b
Or(a, b) == IF Truthy(a) THEN a ELSE b

\* the equipment-status records of the spec's example
StatusRecords ==
    << <<F("status", Text("Operational")), F("count", Number(45))>>,
       <<F("status", Text("Critical")), F("count", Number(2))>> >>

\* records whose first label field is empty and whose count is 0, and a
\* record without fields
ZeroRecords ==
    << <<F("status", Text("")), F("type", Text("Drill")),
         F("count", Number(0)), F("value", Number(5))>>,
       <<>> >>

\* the production records of the spec's example
TrendRecords ==
    << <<F("month", Text("Jan")), F("production", Number(12000))>>,
       <<F("month", Text("Feb")), F("production", Number(13500))>> >>

\* records with a label field, a repeated month, a field the second record
\* holds empty and lacks, and an empty month next to a date
MixedRecords ==
    << <<F("label", Text("north")), F("month", Text("Jan")),
         F("fuelUsed", Number(7)), F("production", Number(0))>>,
       <<F("month", Text("Jan")), F("fuelUsed", Text(""))>>,
       <<F("month", Text("")), F("date", Text("D1")), F("production", Number(3))>> >>

Datasets == {<<>>, StatusRecords, ZeroRecords, TrendRecords, MixedRecords}

Kinds == {"line", "bar", "pie", "doughnut"}

\* the characters of the keys
Spelling(key) ==
    CASE key = "status" -> <<"s", "t", "a", "t", "u", "s">>
      [] key = "type" -> <<"t", "y", "p", "e">>
      [] key = "count" -> <<"c", "o", "u", "n", "t">>
      [] key = "value" -> <<"v", "a", "l", "u", "e">>
      [] key = "label" -> <<"l", "a", "b", "e", "l">>
      [] key = "month" -> <<"m", "o", "n", "t", "h">>
      [] key = "date" -> <<"d", "a", "t", "e">>
      [] key = "fuelUsed" -> <<"f", "u", "e", "l", "U", "s", "e", "d">>
      [] key = "production" -> <<"p", "r", "o", "d", "u", "c", "t", "i", "o", "n">>

LowerLetters ==
    <<"a", "b", "c", "d", "e", "f", "g", "h", "i", "j", "k", "l", "m",
      "n", "o", "p", "q", "r", "s", "t", "u", "v", "w", "x", "y", "z">>

UpperLetters ==
    <<"A", "B", "C", "D", "E", "F", "G", "H", "I", "J", "K", "L", "M",
      "N", "O", "P", "Q", "R", "S", "T", "U", "V", "W", "X", "Y", "Z">>

\* [A-Z]
IsUpper(ch) == \E i \in 1..Len(UpperLetters) : UpperLetters[i] = ch

\* str.toUpperCase() of one character
UpperCase(ch) ==
    IF \E i \in 1..Len(LowerLetters) : LowerLetters[i] = ch
    THEN UpperLetters[CHOOSE i \in 1..Len(LowerLetters) : LowerLetters[i] = ch]
    ELSE ch

\* replace(/([A-Z])/g, ' $1')
RECURSIVE SpaceCapitals(_)
SpaceCapitals(chars) ==
    IF chars = <<>> THEN <<>>
    ELSE (IF IsUpper(Head(chars)) THEN <<" ", Head(chars)>> ELSE <<Head(chars)>>)
         \o SpaceCapitals(Tail(chars))

\* replace(/^./, str => str.toUpperCase())
CapitalizeFirst(chars) ==
    IF chars = <<>> THEN <<>> ELSE <<UpperCase(Head(chars))>> \o Tail(chars)

formatLabel(key) == CapitalizeFirst(SpaceCapitals(Spelling(key)))

\* data.map(f)
Map(f(_), data) == [i \in 1..Len(data) |-> f(data[i])]

\* Array.from(new Set(values)): the first occurrence of every value, in order
RECURSIVE Distinct(_)
Distinct(values) ==
    IF values = <<>> THEN <<>>
    ELSE LET rest == Distinct(SubSeq(values, 1, Len(values) - 1))
             last == values[Len(values)]
         IN  IF \E i \in 1..Len(rest) : rest[i] = last THEN rest
             ELSE Append(rest, last)

\* values.filter(Boolean)
RECURSIVE FilterTruthy(_)
FilterTruthy(values) ==
    IF values = <<>> THEN <<>>
    ELSE (IF Truthy(Head(values)) THEN <<Head(values)>> ELSE <<>>)
         \o FilterTruthy(Tail(values))

\* the filter without its test of 'label'
IsSeriesKeyOrLabel(k) == k # "month" /\ k # "date" /\ k # "period"

\* k => k !== 'month' && k !== 'date' && k !== 'period' && k !== 'label'
IsSeriesKey(k) == k # "month" /\ k # "date" /\ k # "period" /\ k # "label"

\* keys.filter(IsSeriesKey)
RECURSIVE FilterKeys(_)
FilterKeys(keys) ==
    IF keys = <<>> THEN <<>>
    ELSE (IF IsSeriesKey(Head(keys)) THEN <<Head(keys)>> ELSE <<>>)
         \o FilterKeys(Tail(keys))

\* d.status || d.type || d.name || d.label || 'Unknown'
CategoryLabel(d) ==
    Or(Or(Or(Or(Field(d, "status"), Field(d, "type")), Field(d, "name")),
          Field(d, "label")), Text("Unknown"))

\* d.count || d.value || d.percentage || 0
CategoryValue(d) ==
    Or(Or(Or(Field(d, "count"), Field(d, "value")), Field(d, "percentage")),
       Number(0))

\* d.month || d.date || d.period || ''
PointLabel(d) ==
    Or(Or(Or(Field(d, "month"), Field(d, "date")), Field(d, "period")), Text(""))

\* d[key] || 0
PointValue(d, key) == Or(Field(d, key), Number(0))

\* Object.keys(this.data[0] || {}).filter(...)
NumericFields(data) == FilterKeys(IF data = <<>> THEN <<>> ELSE Keys(data[1]))

\* the labels and datasets renderChart hands to the charting engine
ChartData(kind, data) ==
    IF kind = "pie" \/ kind = "doughnut"
    THEN [labels |-> Map(CategoryLabel, data),
          datasets |-> <<[label |-> <<>>, data |-> Map(CategoryValue, data)]>>]
    ELSE [labels |-> FilterTruthy(Distinct(Map(PointLabel, data))),
          datasets |->
              [j \in 1..Len(NumericFields(data)) |->
                  [label |-> formatLabel(NumericFields(data)[j]),
                   data |-> [i \in 1..Len(data) |->
                                PointValue(data[i], NumericFields(data)[j])]]]]

(***************************************************************************)
(* The chart renderer: the components, the drawing surfaces and the        *)
(* charting engine.  Two components are given the same chartId: both draw  *)
(* on the surface of that name, which is in the document while one of them *)
(* is in the view.                                                         *)
(***************************************************************************)
Comps == {"a", "b"}

Surface == "s"
NoCanvas == "none"
NoChart == 0

\* a component the view has not created yet
NotCreated ==
    [phase |-> "none", chartId |-> Surface, data |-> <<>>, type |-> "line",
     chartInstance |-> NoChart, timers |-> 0]

\* the chart state as one record: the handlers are functions of it
There == [components |-> components, registry |-> registry]

\* document.getElementById(chartId + '_chart')
GetElementById(g, chartId) ==
    IF \E k \in Comps : g.components[k].phase = "mounted"
                        /\ g.components[k].chartId = chartId
    THEN chartId
    ELSE NoCanvas

\* Chart.getChart(canvas): the live chart bound to the canvas
GetChart(reg, canvas) ==
    IF \E ch \in reg : ch.canvas = canvas
    THEN (CHOOSE ch \in reg : ch.canvas = canvas).id
    ELSE NoChart

\* chart.destroy(): the chart leaves the registry
DestroyChart(reg, id) == {ch \in reg : ch.id # id}

\* the identity of a new chart object: one no handle and no live chart has
FreshChart(g) ==
    LET used == {ch.id : ch \in g.registry}
                \cup {g.components[k].chartInstance : k \in Comps}
    IN  CHOOSE n \in 1..(Cardinality(used) + 1) : n \notin used

\* renderChart destroys no chart of the registry
KeepsExisting(existingChart) == FALSE

\* if (existingChart)
HasExisting(existingChart) == existingChart # NoChart

\* renderChart goes on without a canvas
DrawsWithoutCanvas(canvas) == FALSE

\* if (!canvas)
CanvasMissing(canvas) == canvas = NoCanvas

renderChart(g, c) ==
    LET me == g.components[c]
        canvas == GetElementById(g, me.chartId)
        own == me.chartInstance
        afterOwn == IF own # NoChart THEN DestroyChart(g.registry, own) ELSE g.registry
        existingChart == GetChart(afterOwn, canvas)
        afterBoth == IF HasExisting(existingChart)
                     THEN DestroyChart(afterOwn, existingChart)
                     ELSE afterOwn
        id == FreshChart(g)
        chart == [id |-> id, canvas |-> canvas, owner |-> c, type |-> me.type,
                  data |-> ChartData(me.type, me.data)]
    IN  IF CanvasMissing(canvas)
        THEN Out(g, <<Call("warn", NoChart, <<>>, "", FALSE)>>, FALSE)
        ELSE Out([components |-> [g.components EXCEPT ![c].chartInstance = id],
                  registry |-> afterBoth \cup {chart}],
                 (IF own # NoChart
                  THEN <<Call("destroy", own, <<>>, "", FALSE)>> ELSE <<>>)
                 \o (IF HasExisting(existingChart)
                     THEN <<Call("destroy", existingChart, <<>>, "", FALSE)>> ELSE <<>>)
                 \o <<Call("new Chart", id, <<>>, "", FALSE)>>,
                 FALSE)

\* setTimeout(() => this.renderChart(), 100)
SetTimeout(g, c) ==
    [g EXCEPT !.components[c].timers = @ + 1]

ngOnInit(g, c) == SetTimeout(g, c)

\* changed: changes['data'] || changes['type']
ngOnChanges(g, c, changed) ==
    IF changed /\ g.components[c].data # <<>> THEN SetTimeout(g, c) ELSE g

ngOnDestroy(g, c) ==
    LET own == g.components[c].chartInstance
    IN  IF own # NoChart
        THEN [components |-> [g.components EXCEPT ![c].chartInstance = NoChart],
              registry |-> DestroyChart(g.registry, own)]
        ELSE g

\* the timer of a deferred render fires
timerFires(g, c) ==
    renderChart([g EXCEPT !.components[c].timers = @ - 1], c)

(***************************************************************************)
(* Initial state: the component as constructed, after ngOnInit.  The store  *)
(* persists across page loads: it is empty, or holds a session an earlier  *)
(* page load left there (a question asked in another language, whose       *)
(* query failed).                                                          *)
(***************************************************************************)
EarlierSession ==
    [id |-> 1,
     title |-> Substring0(LongText, TitleLen),
     language |-> "hi",
     updatedAt |-> 1,
     messages |-> <<Msg("user", LongText, Undefined, Undefined, Undefined)>>]

InitStores == {<<>>, <<EarlierSession>>}

Init ==
    /\ messages = <<Greeting>>
    /\ userInput = Str(<<>>)
    /\ isLoading = FALSE
    /\ includeAudio = TRUE
    /\ currentSession = NoSession
    /\ language = "en"
    /\ store \in InitStores
    /\ components = [c \in Comps |-> NotCreated]
    /\ registry = {}
    /\ inflight = <<>>
    /\ uploads = <<>>

(***************************************************************************)
(* sendMessage.                                                            *)
(***************************************************************************)
\* this.userInput.trim() raises a TypeError on a value that is no string
Throws(c) == c.userInput.t # "string"

\* the guard without its isLoading test
RejectsBlankOnly(c) == Trim(c.userInput.s) = <<>>

\* the guard of sendMessage: !this.userInput.trim() || this.isLoading
Rejects(c) == Trim(c.userInput.s) = <<>> \/ c.isLoading

Accepts(c) == ~Throws(c) /\ ~Rejects(c)

\* a session is created at every submit
AlwaysNeedsSession(cs) == TRUE

\* the session is created when there is none: !this.currentSession
NeedsSession(cs) == cs = NoSession

\* the auto-title condition: this.currentSession && this.messages.length === 2
AutoTitle(msgs) == Len(msgs) = 2

sendMessage(c) ==
    IF Throws(c) THEN Out(c, <<>>, TRUE)
    ELSE IF Rejects(c) THEN Out(c, <<>>, FALSE)
    ELSE
        LET text == c.userInput.s
            userMessage == Msg("user", text, Undefined, Undefined, Undefined)
            msgs == Append(c.messages, userMessage)
            fresh == NeedsSession(c.currentSession)
            sid == IF fresh THEN NewId(c.store) ELSE c.currentSession
            now == Now(c.store)
            st1 == IF fresh THEN HistCreate(c.store, text, c.language, now)
                   ELSE c.store
            st2 == HistAppend(st1, sid, userMessage, now)
            title == Substring0(userMessage.content, TitleLen)
            st3 == IF AutoTitle(msgs) THEN HistRename(st2, sid, title, now) ELSE st2
            q == [query |-> text, audio |-> c.includeAudio]
        IN  Out([c EXCEPT !.messages = msgs,
                          !.currentSession = sid,
                          !.store = st3,
                          !.userInput = Str(<<>>),
                          !.isLoading = TRUE,
                          !.inflight = Append(@, q)],
                (IF fresh THEN <<Call("create", sid, text, c.language, FALSE)>> ELSE <<>>)
                \o <<Call("appendMessage", sid, userMessage.content, "", FALSE)>>
                \o (IF AutoTitle(msgs)
                    THEN <<Call("rename", sid, title, "", FALSE)>> ELSE <<>>)
                \o <<Call("sendQuery", NoSession, text, c.language, c.includeAudio)>>,
                FALSE)

\* the 'suggestQuestion' listener: this.userInput = event.detail; sendMessage()
suggestQuestion(c, detail) == sendMessage([c EXCEPT !.userInput = detail])

(***************************************************************************)
(* Completion of a query: the callbacks given to sendQuery(...).subscribe. *)
(***************************************************************************)
\* the audio hand-off condition of the next callback
PlaysAudio(c, q, r) == c.includeAudio /\ AudioSuccess(r.audio)

\* the record persisted without the audio descriptor
RecordWithoutAudio(m) ==
    Msg("assistant", m.content, m.visualizations, m.recommendations, Undefined)

\* the record persisted for the assistant message
AssistantRecord(m) ==
    Msg("assistant", m.content, m.visualizations, m.recommendations, m.audio)

\* isLoading left set by the callbacks
StillLoading == TRUE

\* isLoading as both callbacks set it first
AfterCompletion == FALSE

queryNext(c, i, r) ==
    LET q == c.inflight[i]
        assistantMessage ==
            Msg("assistant", r.answer, r.visualizations, r.recommendations, r.audio)
        persist == r.success /\ c.currentSession # NoSession
        play == r.success /\ PlaysAudio(c, q, r)
    IN  Out([c EXCEPT !.isLoading = AfterCompletion,
                      !.messages = Append(@, IF r.success THEN assistantMessage
                                                          ELSE Apology),
                      !.store = IF persist
                                THEN HistAppend(@, c.currentSession,
                                                AssistantRecord(assistantMessage),
                                                Now(c.store))
                                ELSE @,
                      !.inflight = RemoveAt(@, i)],
            (IF persist
             THEN <<Call("appendMessage", c.currentSession, assistantMessage.content,
                         "", FALSE)>>
             ELSE <<>>)
            \o (IF play THEN <<Call("playAudio", NoSession, <<>>, "", FALSE)>> ELSE <<>>),
            FALSE)

\* the error callback appends nothing
NoFallback(query) == <<>>

\* the messages the error callback appends
ErrorMessages(query) == <<Fallback(query)>>

\* the error callback leaves the controller Awaiting
queryErrorStaysAwaiting(c, i) ==
    Out([c EXCEPT !.messages = @ \o ErrorMessages(c.inflight[i].query),
                  !.inflight = RemoveAt(@, i)],
        <<>>, FALSE)

queryError(c, i) ==
    Out([c EXCEPT !.isLoading = AfterCompletion,
                  !.messages = @ \o ErrorMessages(c.inflight[i].query),
                  !.inflight = RemoveAt(@, i)],
        <<>>, FALSE)

(***************************************************************************)
(* The 'loadSession' listener and clearChat.                               *)
(***************************************************************************)
\* the language is left as it is
KeepsLanguage(c, session) == c.language

\* session.language || this.language
LoadedLanguage(c, session) ==
    IF session.language # "" THEN session.language ELSE c.language

\* the stored messages mapped newest first
LoadedNewestFirst(c, session) ==
    [i \in 1..Len(session.messages) |->
        LET m == session.messages[Len(session.messages) + 1 - i]
        IN  Msg(m.role, m.content, m.visualizations, m.recommendations, m.audio)]

\* session.messages.map(...)
LoadedMessages(c, session) ==
    [i \in 1..Len(session.messages) |->
        Msg(session.messages[i].role, session.messages[i].content,
            session.messages[i].visualizations,
            session.messages[i].recommendations, session.messages[i].audio)]

loadSession(c, detail) ==
    LET session == HistLoad(c.store, detail)
    IN  IF session # NoSessionRec
        THEN Out([c EXCEPT !.currentSession = session.id,
                           !.language = LoadedLanguage(c, session),
                           !.messages = LoadedMessages(c, session)],
                 <<Call("load", detail.n, <<>>, "", FALSE)>>, FALSE)
        ELSE Out(c, <<Call("load", detail.n, <<>>, "", FALSE)>>, FALSE)

\* clearing also leaves the session: the next submit starts a new one
clearChatLeavesSession(c) ==
    Out([c EXCEPT !.messages = <<Cleared>>, !.currentSession = NoSession], <<>>, FALSE)

clearChat(c) == Out([c EXCEPT !.messages = <<Cleared>>], <<>>, FALSE)

(***************************************************************************)
(* File upload.                                                            *)
(***************************************************************************)
Name(chars) == [i \in 1..Len(chars) |-> Run(chars[i], 1)]

Files == {Name(<<"a", ".", "C", "S", "V">>)}

ToLower(ch) == CASE ch = "C" -> "c" [] ch = "S" -> "s" [] ch = "V" -> "v" [] OTHER -> ch

\* String.prototype.toLowerCase
RECURSIVE ToLowerCase(_)
ToLowerCase(s) ==
    IF s = <<>> THEN <<>>
    ELSE Cat(<<Run(ToLower(Head(s).ch), Head(s).n)>>, ToLowerCase(Tail(s)))

\* the last n characters of s
RECURSIVE Suffix(_, _)
Suffix(s, n) ==
    IF n = 0 \/ s = <<>> THEN <<>>
    ELSE IF s[Len(s)].n <= n
         THEN Cat(Suffix(SubSeq(s, 1, Len(s) - 1), n - s[Len(s)].n), <<s[Len(s)]>>)
         ELSE <<Run(s[Len(s)].ch, n)>>

\* String.prototype.endsWith
EndsWith(s, suffix) == Suffix(s, TextLen(suffix)) = suffix

DocType(name) ==
    IF EndsWith(ToLowerCase(name), Name(<<".", "c", "s", "v">>)) THEN "csv" ELSE "pdf"

Imported(name) ==
    Msg("assistant", Cat(Cat(Lit("Imported "), name), Lit(" successfully.")),
        Undefined, Undefined, Undefined)

FailedImport(name) ==
    Msg("assistant", Cat(Cat(Lit("Failed to import "), name), Lit(".")),
        Undefined, Undefined, Undefined)

onFileSelected(c, name) ==
    Out([c EXCEPT !.uploads = Append(@, name)],
        <<Call("uploadFile", NoSession, name, DocType(name), FALSE)>>, FALSE)

uploadNext(c, i, success) ==
    Out([c EXCEPT !.messages = Append(@, IF success THEN Imported(c.uploads[i])
                                                    ELSE FailedImport(c.uploads[i])),
                  !.uploads = RemoveAt(@, i)],
        <<>>, FALSE)

\* the error callback of an upload appends nothing
uploadErrorSilent(c, i) == Out([c EXCEPT !.uploads = RemoveAt(@, i)], <<>>, FALSE)

uploadError(c, i) ==
    Out([c EXCEPT !.messages = Append(@, FailedImport(c.uploads[i])),
                  !.uploads = RemoveAt(@, i)],
        <<>>, FALSE)

(***************************************************************************)
(* The shell (AppComponent) and the events it sends to the controller.     *)
(* The page is a tree of nodes: window, document, app-root, app-chat.      *)
(***************************************************************************)
Window == "window"
ChatElement == "app-chat"
NoElement == "null"

\* the propagation path of an event dispatched at app-chat, outermost first
PathToChat == <<Window, "document", "app-root", ChatElement>>

\* window.addEventListener(type, handler): the listeners setupEventListeners
\* registers; without a third argument a listener does not capture
Listeners ==
    {[node |-> Window, type |-> "suggestQuestion", capture |-> FALSE],
     [node |-> Window, type |-> "loadSession", capture |-> FALSE]}

\* new CustomEvent(type, { detail }): bubbles is false unless asked for
CustomEvent(type, detail) == [type |-> type, detail |-> detail, bubbles |-> FALSE]

\* document.querySelector('app-chat'): the element of the chat component
QuerySelector(selector) == IF selector = ChatElement THEN ChatElement ELSE NoElement

\* the node is a proper ancestor of the target
Above(node, target) ==
    \E i, j \in 1..Len(PathToChat) :
        i < j /\ PathToChat[i] = node /\ PathToChat[j] = target

\* EventTarget.dispatchEvent: a listener of the event's type is invoked at the
\* target, and at a node above it when it captures or the event bubbles
Invoked(l, target, event) ==
    /\ l.type = event.type
    /\ \/ l.node = target
       \/ Above(l.node, target) /\ (l.capture \/ event.bubbles)

\* the listener's callback
Callback(c, l, event) ==
    IF l.type = "suggestQuestion"
    THEN suggestQuestion(c, event.detail)
    ELSE loadSession(c, event.detail)

\* the controller registers one listener per event type, so at most one is
\* invoked
DispatchEvent(c, target, event) ==
    IF \E l \in Listeners : Invoked(l, target, event)
    THEN Callback(c, CHOOSE l \in Listeners : Invoked(l, target, event), event)
    ELSE Out(c, <<>>, FALSE)

\* AppComponent.refreshSessions: the collection as it is persisted, in the
\* order of the blob (JSON.parse of what the store wrote); a missing blob is
\* the empty collection.  The shell's fields sessions and showHistory are no
\* state of the model: sessions is what refreshSessions reads from the store.
refreshSessions(st) == st

\* AppComponent.suggestQuestion
appSuggestQuestion(c, question) ==
    LET chatComponent == QuerySelector(ChatElement)
    IN  IF chatComponent # NoElement
        THEN DispatchEvent(c, chatComponent, CustomEvent("suggestQuestion", question))
        ELSE Out(c, <<>>, FALSE)

\* AppComponent.openSession
openSession(c, sessionId) ==
    LET chatComponent == QuerySelector(ChatElement)
    IN  IF chatComponent # NoElement
        THEN DispatchEvent(c, chatComponent, CustomEvent("loadSession", sessionId))
        ELSE Out(c, <<>>, FALSE)

(***************************************************************************)
(* Caps that keep the model finite: new work is started only while there   *)
(* is room for the messages it will add.                                   *)
(***************************************************************************)
Room(c) == Len(c.messages) + Len(c.inflight) + Len(c.uploads) < MaxMsgs

\* the number of messages the store holds
RECURSIVE Stored(_)
Stored(st) == IF st = <<>> THEN 0 ELSE Len(Head(st).messages) + Stored(Tail(st))

StoreRoom(c) == Stored(c.store) + Len(c.inflight) < MaxStored

\* a file is selected only while the list and the pending uploads leave room
\* for its status message; a query in flight does not count, so that an upload
\* can run next to a query
UploadRoom(c) == Len(c.messages) + Len(c.uploads) < MaxMsgs

\* sendMessage may run: rejected, or accepted with room for what it adds
MaySend(c) == Accepts(c) => (Room(c) /\ StoreRoom(c))

(***************************************************************************)
(* The events.                                                             *)
(***************************************************************************)
Becomes(c) ==
    /\ messages' = c.messages
    /\ userInput' = c.userInput
    /\ isLoading' = c.isLoading
    /\ includeAudio' = c.includeAudio
    /\ currentSession' = c.currentSession
    /\ language' = c.language
    /\ store' = c.store
    /\ inflight' = c.inflight
    /\ uploads' = c.uploads
    /\ UNCHANGED <<components, registry>>

\* the send button and handleEnterEvent
Submit ==
    /\ MaySend(Here)
    /\ Becomes(sendMessage(Here).c)

SuggestDetails == {Str(t) : t \in Texts} \cup {Null}

SuggestQuestion(detail) ==
    /\ MaySend([Here EXCEPT !.userInput = detail])
    /\ Becomes(suggestQuestion(Here, detail).c)

\* the input box, bound to userInput
TypeInput(t) == Becomes([Here EXCEPT !.userInput = Str(t)])

\* the audio checkbox, bound to includeAudio
ToggleAudio == Becomes([Here EXCEPT !.includeAudio = ~@])

\* @Input() language, set by the shell; to keep the model small the shell's
\* language is changed only while the conversation has no session yet
SetLanguage(l) ==
    /\ currentSession = NoSession
    /\ Becomes([Here EXCEPT !.language = l])

QueryNext(i, r) == Becomes(queryNext(Here, i, r).c)

QueryError(i) == Becomes(queryError(Here, i).c)

LoadDetails == {Id(1), Id(2), Null}

LoadSession(detail) == Becomes(loadSession(Here, detail).c)

ClearChat == Becomes(clearChat(Here).c)

OnFileSelected(name) ==
    /\ UploadRoom(Here)
    /\ Becomes(onFileSelected(Here, name).c)

UploadNext(i, success) == Becomes(uploadNext(Here, i, success).c)

UploadError(i) == Becomes(uploadError(Here, i).c)

\* a suggestion button of the shell
AppSuggestQuestion(question) ==
    /\ MaySend([Here EXCEPT !.userInput = Str(question)])
    /\ Becomes(appSuggestQuestion(Here, Str(question)).c)

\* an entry of the shell's history panel
OpenSession(sessionId) == Becomes(openSession(Here, Id(sessionId)).c)

\* a query sent to the service completes: the HTTP observable delivers a
\* response or an error
Completion ==
    \/ \E i \in 1..Len(inflight) : \E r \in Responses : QueryNext(i, r)
    \/ \E i \in 1..Len(inflight) : QueryError(i)

Next ==
    \/ Submit
    \/ \E detail \in SuggestDetails : SuggestQuestion(detail)
    \/ \E t \in Texts : TypeInput(t)
    \/ ToggleAudio
    \/ \E l \in Languages : SetLanguage(l)
    \/ Completion
    \/ \E detail \in LoadDetails : LoadSession(detail)
    \/ ClearChat
    \/ \E name \in Files : OnFileSelected(name)
    \/ \E i \in 1..Len(uploads) : \E success \in BOOLEAN : UploadNext(i, success)
    \/ \E i \in 1..Len(uploads) : UploadError(i)
    \/ \E question \in Texts : AppSuggestQuestion(question)
    \/ \E sessionId \in 1..Len(store) : OpenSession(sessionId)

Spec == Init /\ [][Next]_vars

(***************************************************************************)
(* The events of the chart components.  The conversation stays as it is.   *)
(***************************************************************************)
ChatVars == <<messages, userInput, isLoading, includeAudio, currentSession,
              language, store, inflight, uploads>>

Draws(g) ==
    /\ components' = g.components
    /\ registry' = g.registry
    /\ UNCHANGED ChatVars

\* the view creates the component: the inputs are bound, then Angular calls
\* ngOnChanges and ngOnInit
Mount(c, data, kind) ==
    /\ components[c].phase = "none"
    /\ Draws(ngOnInit(
             ngOnChanges([There EXCEPT !.components[c].phase = "mounted",
                                       !.components[c].data = data,
                                       !.components[c].type = kind],
                         c, TRUE),
             c))

\* the parent binds new data or another type: Angular calls ngOnChanges
Change(c, data, kind) ==
    /\ components[c].phase = "mounted"
    /\ components[c].timers < MaxTimers
    /\ <<data, kind>> # <<components[c].data, components[c].type>>
    /\ Draws(ngOnChanges([There EXCEPT !.components[c].data = data,
                                       !.components[c].type = kind],
                         c, TRUE))

\* a deferred render runs, also after the component was destroyed
TimerFires(c) ==
    /\ components[c].timers > 0
    /\ Draws(timerFires(There, c).c)

\* the view removes the component: Angular calls ngOnDestroy
Unmount(c) ==
    /\ components[c].phase = "mounted"
    /\ Draws(ngOnDestroy([There EXCEPT !.components[c].phase = "destroyed"], c))

\* the inputs the parent binds: every kind with every data set for the
\* component a, the production records as lines or bars for its sibling b
InputsOf(c) ==
    IF c = "a" THEN Kinds \X Datasets
    ELSE {<<"line", TrendRecords>>, <<"bar", TrendRecords>>}

ChartInit == Init /\ store = <<>>

ChartNext ==
    \/ \E c \in Comps : \E input \in InputsOf(c) : Mount(c, input[2], input[1])
    \/ \E c \in Comps : \E input \in InputsOf(c) : Change(c, input[2], input[1])
    \/ \E c \in Comps : TimerFires(c)
    \/ \E c \in Comps : Unmount(c)

ChartSpec == ChartInit /\ [][ChartNext]_vars

FairSpec == Spec /\ WF_vars(Completion)

(***************************************************************************)
(* Properties.  A handler's effect in a state is the value of its function *)
(* there, so a property of a handler is stated over every reachable state  *)
(* and every input of the handler.                                         *)
(***************************************************************************)
Issued(calls, op) == \E i \in 1..Len(calls) : calls[i].op = op

Last(s) == s[Len(s)]

Pending == 1..Len(inflight)

\* the responses the next callback is examined with
Arrivals == Responses \cup {SilentResponse}

Successes == {r \in Arrivals : r.success}

\* C1: sendMessage called while the controller is Awaiting, or with blank or
\* whitespace-only input, is a no-op: message list, current session, store and
\* the queries in flight are unchanged (and no service is called).
C1_RejectedSubmitIsNoOp ==
    (isLoading \/ Trim(userInput.s) = <<>>)
        => LET out == sendMessage(Here)
           IN  /\ out.c.messages = messages
               /\ out.c.currentSession = currentSession
               /\ out.c.store = store
               /\ out.c.inflight = inflight
               /\ out.calls = <<>>

\* non-blank text is in the input box while a query is in flight
C1_Witness ==
    /\ isLoading
    /\ Len(inflight) = 1
    /\ userInput = Str(LongText)
    /\ sendMessage(Here).c = Here

\* C2: a transport failure of a query leaves the controller Idle and appends
\* exactly one message, the fallback built from that query's text, to the
\* message list, whatever happened while the query was in flight.
C2_TransportFailure ==
    \A i \in Pending :
        LET out == queryError(Here, i)
        IN  /\ ~out.c.isLoading
            /\ out.c.messages = Append(messages, Fallback(inflight[i].query))
            /\ ~out.fault

\* the failure arrived after a clearChat made while the query was in flight
C2_Witness ==
    /\ ~isLoading
    /\ inflight = <<>>
    /\ messages = <<Cleared, Fallback(LongText)>>

\* the controller is Idle and accepts non-blank input
Responsive(c) == ~c.isLoading /\ Accepts([c EXCEPT !.userInput = Str(LongText)])

\* C3: every completion (response, reported failure, transport failure) leaves
\* the controller Idle, where a non-blank submit is accepted; and when the
\* service completes every query, Awaiting always leads to Idle.
C3_BackToIdle ==
    /\ [](\A i \in Pending :
            /\ Responsive(queryError(Here, i).c)
            /\ \A r \in Arrivals : Responsive(queryNext(Here, i, r).c))
    /\ (isLoading ~> ~isLoading)

\* a reported failure has arrived and the controller is Idle
C3_Witness ==
    /\ ~isLoading
    /\ inflight = <<>>
    /\ Last(messages) = Apology
    /\ Responsive(Here)

C5_AudioIffRequested ==
    \A i \in Pending : \A r \in Successes :
        Issued(queryNext(Here, i, r).calls, "playAudio")
            <=> (inflight[i].audio /\ AudioSuccess(r.audio))

\* the session holds no persisted message yet
FirstExchange ==
    \/ currentSession = NoSession
    \/ SessionOf(store, currentSession).messages = <<>>

\* C6: an accepted submit renames the session iff it is the session's first
\* exchange, i.e. the session held no persisted message before it.
C6_RenameIffFirstExchange ==
    (Accepts(Here) /\ MaySend(Here))
        => (Issued(sendMessage(Here).calls, "rename") <=> FirstExchange)

\* the results of every handler that can run in this state, but sendMessage
OtherOutcomes ==
    {queryNext(Here, i, r) : i \in Pending, r \in Arrivals}
    \cup {queryError(Here, i) : i \in Pending}
    \cup {loadSession(Here, d) : d \in LoadDetails}
    \cup {clearChat(Here)}
    \cup {onFileSelected(Here, name) : name \in Files}
    \cup {uploadNext(Here, i, ok) : i \in 1..Len(uploads), ok \in BOOLEAN}
    \cup {uploadError(Here, i) : i \in 1..Len(uploads)}

\* the states sendMessage can be called in here: as it is, or from the
\* suggestion listener with the input set
SendCases == {Here} \cup {[Here EXCEPT !.userInput = d] : d \in SuggestDetails}

MalformedSuggestions == {d \in SuggestDetails : d.t # "string"}

\* the payload of a 'loadSession' event that is no id of the store
MalformedLoads == {d \in LoadDetails : ~(d.t = "id" /\ Known(store, d.n))}

Ignored(out) ==
    /\ ~out.fault
    /\ out.c.messages = messages
    /\ out.c.userInput = userInput
    /\ out.c.currentSession = currentSession
    /\ out.c.isLoading = isLoading
    /\ out.c.store = store

\* C9: a trigger with a malformed payload (missing, no string, unknown id) is
\* ignored: no fault, and message list, input, current session, Idle/Awaiting
\* and store are unchanged.
C9_MalformedIgnored ==
    /\ \A d \in MalformedSuggestions : Ignored(suggestQuestion(Here, d))
    /\ \A d \in MalformedLoads : Ignored(loadSession(Here, d))

\* the part of the state idempotence is about
Settled(c) ==
    <<c.messages, c.userInput, c.currentSession, c.isLoading, c.inflight, c.store>>

\* C10: delivering the same trigger twice in immediate succession leaves the
\* controller and the store as delivering it once.
C10_TriggersIdempotent ==
    /\ \A d \in SuggestDetails :
          MaySend([Here EXCEPT !.userInput = d])
              => LET once == suggestQuestion(Here, d).c
                 IN  Settled(suggestQuestion(once, d).c) = Settled(once)
    /\ \A d \in LoadDetails :
          LET once == loadSession(Here, d).c
          IN  Settled(loadSession(once, d).c) = Settled(once)

\* the status messages an upload of the file can end with
StatusMessages(name) == {Imported(name), FailedImport(name)}

\* the results of every way the upload i can complete
UploadOutcomes(c, i) ==
    {uploadNext(c, i, ok) : ok \in BOOLEAN} \cup {uploadError(c, i)}

\* two completions of a query did the same: same calls, same state of the
\* controller and the store, same message appended
SameCompletion(a, b) ==
    /\ a.calls = b.calls
    /\ a.fault = b.fault
    /\ a.c.isLoading = b.c.isLoading
    /\ a.c.currentSession = b.c.currentSession
    /\ a.c.store = b.c.store
    /\ a.c.inflight = b.c.inflight
    /\ Last(a.c.messages) = Last(b.c.messages)

\* C11: every completion of an upload (acknowledged, refused, transport error)
\* appends exactly one assistant status message and leaves Idle/Awaiting, the
\* current session and the store unchanged; an upload can start while a query
\* is Awaiting, and the query completes after the upload as it would without.
C11_UploadIsSideChannel ==
    /\ \A name \in Files :
          LET out == onFileSelected(Here, name)
          IN  /\ out.c.uploads = Append(uploads, name)
              /\ out.c.inflight = inflight
              /\ out.c.isLoading = isLoading
              /\ ~out.fault
    /\ \A i \in 1..Len(uploads) : \A up \in UploadOutcomes(Here, i) :
          /\ Len(up.c.messages) = Len(messages) + 1
          /\ SubSeq(up.c.messages, 1, Len(messages)) = messages
          /\ Last(up.c.messages) \in StatusMessages(uploads[i])
          /\ Last(up.c.messages).role = "assistant"
          /\ up.c.isLoading = isLoading
          /\ up.c.currentSession = currentSession
          /\ up.c.store = store
          /\ up.c.inflight = inflight
          /\ ~up.fault
          /\ \A j \in Pending :
                /\ SameCompletion(queryError(up.c, j), queryError(Here, j))
                /\ \A r \in Arrivals :
                      SameCompletion(queryNext(up.c, j, r), queryNext(Here, j, r))

\* an upload started and completed while the query is still in flight
C11_Witness ==
    /\ isLoading
    /\ Len(inflight) = 1
    /\ uploads = <<>>
    /\ Len(messages) = 2
    /\ messages[1] = Cleared
    /\ messages[2] \in UNION {StatusMessages(name) : name \in Files}

\* a reported failure that carries an answer and payloads all the same
LoudFailure == Resp(FALSE, Lit("answer"), "viz", "recs", "audio_ok")

\* the responses whose success flag is false
Failures == {r \in Responses : ~r.success} \cup {LoudFailure}

\* the text of the apology
ApologyText == Lit("Sorry, I encountered an error. Please try again.")

\* C12: a response whose success flag is false appends exactly one assistant
\* message with the fixed apology text, whatever the query and the response,
\* without visualizations, recommendations or audio, and leaves the controller
\* Idle.
C12_ReportedFailure ==
    \A i \in Pending : \A r \in Failures :
        LET out == queryNext(Here, i, r)
            m == Last(out.c.messages)
        IN  /\ out.c.messages = Append(messages, m)
            /\ m.role = "assistant"
            /\ m.content = ApologyText
            /\ m.visualizations = Undefined
            /\ m.recommendations = Undefined
            /\ m.audio = Undefined
            /\ ~out.c.isLoading
            /\ ~Issued(out.calls, "playAudio")
            /\ ~out.fault

\* the apology answered the first question of a conversation; the session
\* holds the question only
C12_Witness ==
    /\ ~isLoading
    /\ inflight = <<>>
    /\ Len(messages) = 3
    /\ messages[2].role = "user"
    /\ messages[3].content = ApologyText
    /\ Known(store, currentSession)
    /\ SessionOf(store, currentSession).messages = <<messages[2]>>

\* a successful response of the backend whose answer, visualizations and
\* recommendations are those the error callback makes up for the query, and
\* that carries no audio
Mimic(query) ==
    Resp(TRUE, Fallback(query).content, Fallback(query).visualizations,
         Fallback(query).recommendations, Undefined)

\* C13: no successful response of the backend, whatever its answer,
\* visualizations and recommendations, yields an assistant message equal to
\* the fallback message of a transport failure.
C13_FallbackIsSynthetic ==
    \A i \in Pending :
        \A r \in Successes \cup {Mimic(inflight[i].query)} :
            Last(queryNext(Here, i, r).c.messages)
                # Last(queryError(Here, i).c.messages)

(***************************************************************************)
(* Properties of the chart renderer.                                       *)
(***************************************************************************)
\* the live charts bound to the canvas
ChartsOn(reg, canvas) == {ch \in reg : ch.canvas = canvas}

\* the live chart the handle of the component c points to, if any
HandleChart(g, c) == {ch \in g.registry : ch.id = g.components[c].chartInstance}

\* C14: at most one live chart is bound to a surface; a render that finds its
\* canvas destroys the chart of the component's handle and the chart the
\* registry has for the canvas, then creates the one chart bound to it.
C14_OneChartPerSurface ==
    /\ Cardinality(ChartsOn(registry, Surface)) <= 1
    /\ \A c \in Comps :
          LET canvas == GetElementById(There, components[c].chartId)
              out == renderChart(There, c)
          IN  canvas # NoCanvas
                => /\ \A ch \in registry :
                          (ch.id = components[c].chartInstance \/ ch.canvas = canvas)
                              => ch \notin out.c.registry
                   /\ ChartsOn(out.c.registry, canvas) = HandleChart(out.c, c)
                   /\ Cardinality(HandleChart(out.c, c)) = 1
                   /\ HandleChart(out.c, c) \cap registry = {}
                   /\ Last(out.calls).op = "new Chart"

\* the handle of a went stale: b's render destroyed a's chart through the
\* registry, and b's chart is the one live chart
C14_Witness ==
    /\ components["a"].phase = "mounted"
    /\ components["b"].phase = "mounted"
    /\ components["a"].chartInstance # NoChart
    /\ HandleChart(There, "a") = {}
    /\ Cardinality(registry) = 1
    /\ HandleChart(There, "b") = registry

\* C15: once a chart component has been torn down, no chart it created is
\* live, also after a deferred render scheduled before the teardown has fired.
C15_NoChartAfterTeardown ==
    \A c \in Comps :
        components[c].phase = "destroyed"
            => \A ch \in registry : ch.owner # c

\* the value of the first of the keys the record has, or the default
RECURSIVE FirstPresent(_, _, _)
FirstPresent(d, keys, default) ==
    IF keys = <<>> THEN default
    ELSE IF Field(d, Head(keys)) # Missing THEN Field(d, Head(keys))
    ELSE FirstPresent(d, Tail(keys), default)

\* the chart a render of the component c creates here, when it finds its canvas
Rendered(c) == CHOOSE ch \in HandleChart(renderChart(There, c).c, c) : TRUE

\* the component c is given the kind and would find its canvas
Renders(c, kinds) ==
    /\ components[c].type \in kinds
    /\ GetElementById(There, components[c].chartId) # NoCanvas

\* C16: for pie and doughnut the chart has exactly one series; the label of a
\* record is the value of the first field it has among status, type, name,
\* label ("Unknown" if none) and its value that of the first field it has
\* among count, value, percentage (0 if none), also when the field holds 0
\* or the empty string.
C16_CategoricalFirstPresent ==
    \A c \in Comps :
        Renders(c, {"pie", "doughnut"})
            => LET data == components[c].data
                   drawn == Rendered(c).data
               IN  /\ Len(drawn.datasets) = 1
                   /\ drawn.labels
                        = [i \in 1..Len(data) |->
                             FirstPresent(data[i], <<"status", "type", "name", "label">>,
                                          Text("Unknown"))]
                   /\ drawn.datasets[1].data
                        = [i \in 1..Len(data) |->
                             FirstPresent(data[i], <<"count", "value", "percentage">>,
                                          Number(0))]

\* the keys of the first record that are none of the excluded ones, in the
\* record's key order
KeysExcept(data, excluded) ==
    IF data = <<>> THEN <<>>
    ELSE SelectSeq(Keys(data[1]), LAMBDA k : k \notin excluded)

\* the value the record has under the key, 0 where it lacks the key
ValueOrZero(d, key) == IF Field(d, key) = Missing THEN Number(0) ELSE Field(d, key)

\* the value the record has under the key, 0 where it lacks the key or holds
\* 0 or the empty string under it
TruthyOrZero(d, key) ==
    IF Field(d, key) \in {Missing, Number(0), Text("")} THEN Number(0)
    ELSE Field(d, key)

\* the series of the chart are those of the keys, in order, each named from
\* its key, with one value per record
SeriesAre(drawn, data, keys, value(_, _)) ==
    /\ Len(drawn.datasets) = Len(keys)
    /\ \A j \in 1..Len(keys) :
          /\ drawn.datasets[j].label = formatLabel(keys[j])
          /\ drawn.datasets[j].data
               = [i \in 1..Len(data) |-> value(data[i], keys[j])]

\* C17 as claimed: for line and bar the series are exactly the keys of the
\* first record other than month, date and period, in key order, each named
\* from its key; the values of a series are the records' values under the
\* key, 0 where a record lacks it.
C17_SeriesFromFirstRecord ==
    \A c \in Comps :
        Renders(c, {"line", "bar"})
            => SeriesAre(Rendered(c).data, components[c].data,
                         KeysExcept(components[c].data, {"month", "date", "period"}),
                         ValueOrZero)

\* C17 as amended: for line and bar the series are exactly the keys of the
\* first record other than month, date, period and label, in key order, each
\* named from its key; the values of a series are the records' values under
\* the key, 0 where a record lacks the key or holds a falsy value under it.
C17_SeriesExceptLabelKeys ==
    \A c \in Comps :
        Renders(c, {"line", "bar"})
            => SeriesAre(Rendered(c).data, components[c].data,
                         KeysExcept(components[c].data,
                                    {"month", "date", "period", "label"}),
                         TruthyOrZero)

\* a line or bar chart of the records with a label field is live: two
\* series, fuelUsed and production
C17_Witness ==
    \E ch \in registry :
        /\ ch.owner = "a"
        /\ ch.type \in {"line", "bar"}
        /\ Len(ch.data.datasets) = 2
        /\ ch.data.datasets[1].label = <<"F", "u", "e", "l", " ", "U", "s", "e", "d">>
        /\ ch.data.datasets[1].data = <<Number(7), Number(0), Number(0)>>
        /\ ch.data.datasets[2].data = <<Number(0), Number(0), Number(3)>>

\* the values at the positions that hold a value no earlier position holds
\* and that is not falsy, from position i on
RECURSIVE FirstOccurrences(_, _)
FirstOccurrences(values, i) ==
    IF i > Len(values) THEN <<>>
    ELSE (IF /\ values[i] \notin {Missing, Number(0), Text("")}
             /\ \A j \in 1..(i - 1) : values[j] # values[i]
          THEN <<values[i]>> ELSE <<>>)
         \o FirstOccurrences(values, i + 1)

\* C18: for line and bar the labels are the values the records hold under the
\* first field they have among month, date, period, in record order, each
\* value once (its first occurrence), without the falsy ones (records with
\* none of the three fields).
C18_LabelsFirstPresent ==
    \A c \in Comps :
        Renders(c, {"line", "bar"})
            => LET data == components[c].data
                   found == [i \in 1..Len(data) |->
                                FirstPresent(data[i], <<"month", "date", "period">>,
                                             Missing)]
               IN  Rendered(c).data.labels = FirstOccurrences(found, 1)

\* C19: a render that does not find its canvas raises no fault, destroys and
\* creates no chart, and leaves the handles and the live charts as they are.
C19_MissingSurface ==
    \A c \in Comps :
        (components[c].timers > 0
         /\ GetElementById(There, components[c].chartId) = NoCanvas)
            => LET out == timerFires(There, c)
               IN  /\ ~out.fault
                   /\ out.c.registry = registry
                   /\ \A k \in Comps :
                          out.c.components[k].chartInstance
                              = components[k].chartInstance
                   /\ ~Issued(out.calls, "new Chart")
                   /\ ~Issued(out.calls, "destroy")

\* no component is in the view, a deferred render of a is still pending, and
\* a chart is live that a's handle points to
C19_Witness ==
    /\ \A k \in Comps : components[k].phase = "destroyed"
    /\ components["a"].timers > 0
    /\ HandleChart(There, "a") # {}
    /\ timerFires(There, "a").c.registry = registry

\* what loadSession gives back for the session: its messages as the
\* controller shows them
Reloaded(c, id) == loadSession(c, Id(id)).c.messages

\* the messages of the list the controller persists: the user's and the
\* answers, not the greeting, apologies, fallbacks and upload status messages
Exchanged(msgs) ==
    SelectSeq(msgs, LAMBDA m :
        \/ m.role = "user"
        \/ \E r \in Successes : m = Msg("assistant", r.answer, r.visualizations,
                                        r.recommendations, r.audio))

C21_ShellReachesController ==
    /\ \A question \in Texts :
          LET asked == [Here EXCEPT !.userInput = Str(question)]
          IN  (Accepts(asked) /\ MaySend(asked))
                 => LET out == appSuggestQuestion(Here, Str(question))
                    IN  /\ out.c = suggestQuestion(Here, Str(question)).c
                        /\ Last(out.c.messages).role = "user"
                        /\ Last(out.c.messages).content = question
                        /\ Issued(out.calls, "sendQuery")
    /\ \A sessionId \in 1..Len(store) :
          openSession(Here, Id(sessionId)).c = loadSession(Here, Id(sessionId)).c

\* the list is ordered by updatedAt, most recent first
RecentFirst(sessions) ==
    \A i, j \in 1..Len(sessions) :
        i < j => sessions[i].updatedAt >= sessions[j].updatedAt

OthersUntouched(before, after, id) ==
    \A k \in 1..Len(before) :
        before[k].id # id
           => SessionOf(after, before[k].id).messages = before[k].messages

\* C23: the response to a query is persisted only to the session that holds
\* the query's user message: when a submit is accepted, a load-session event
\* then switches the current session while the query is awaited, and the
\* response arrives, the response is not appended to the persisted messages of
\* the session that was loaded, nor to those of any session but the query's.
C23_ResponseToItsSession ==
    (Accepts(Here) /\ MaySend(Here))
       => LET sent == sendMessage(Here).c
              asked == sent.currentSession
          IN  \A k \in 1..Len(sent.store) : \A r \in Successes :
                 LET switched == loadSession(sent, Id(sent.store[k].id)).c
                     done == queryNext(switched, Len(switched.inflight), r).c
                 IN  OthersUntouched(sent.store, done.store, asked)

\* at most one query is in flight, and the controller is Awaiting exactly
\* when one is
OneInFlight(c) == Len(c.inflight) <= 1 /\ (c.isLoading <=> Len(c.inflight) = 1)

\* the states one event leads to: a submit or a suggestion, a completion of
\* the query, a session load, clearChat, a file selected, a completion of an
\* upload, typing
AfterOneEvent ==
    {sendMessage(c).c : c \in SendCases}
    \cup {queryNext(Here, i, r).c : i \in Pending, r \in Arrivals}
    \cup {queryError(Here, i).c : i \in Pending}
    \cup {loadSession(Here, d).c : d \in LoadDetails}
    \cup {clearChat(Here).c}
    \cup {onFileSelected(Here, name).c : name \in Files}
    \cup {uploadNext(Here, i, ok).c : i \in 1..Len(uploads), ok \in BOOLEAN}
    \cup {uploadError(Here, i).c : i \in 1..Len(uploads)}
    \cup {[Here EXCEPT !.userInput = Str(t)] : t \in Texts}

\* C24: in every reachable state at most one query is in flight and the
\* controller is Awaiting exactly when one is, and every event (submit,
\* suggestion, session load, clearChat, upload, completion) keeps it so.
C24_OneQueryInFlight ==
    /\ OneInFlight(Here)
    /\ \A c \in AfterOneEvent : OneInFlight(c)

\* while a query is awaited the chat was cleared and a new question typed: a
\* submit now is refused
C24_Witness ==
    /\ isLoading
    /\ Len(inflight) = 1
    /\ messages = <<Cleared>>
    /\ userInput = Str(LongText)
    /\ sendMessage(Here).c = Here

\* C25: clearChat replaces the in-memory list by a single assistant message
\* and leaves the current session, Idle/Awaiting, the query in flight and the
\* store as they are; so a message submitted after it is persisted to the
\* session that was current before it, and a response that arrives after a
\* clearChat issued while Awaiting is appended as it would have been.
C25_ClearChatFrame ==
    LET out == clearChat(Here)
        cleared == out.c
    IN  /\ Len(cleared.messages) = 1
        /\ cleared.messages[1].role = "assistant"
        /\ cleared.currentSession = currentSession
        /\ cleared.isLoading = isLoading
        /\ cleared.inflight = inflight
        /\ cleared.store = store
        /\ cleared.uploads = uploads
        /\ cleared.userInput = userInput
        /\ cleared.language = language
        /\ cleared.includeAudio = includeAudio
        /\ out.calls = <<>>
        /\ ~out.fault
        /\ (currentSession # NoSession /\ Accepts(cleared))
              => LET sent == sendMessage(cleared)
                 IN  /\ sent.c.currentSession = currentSession
                     /\ Len(sent.c.store) = Len(store)
                     /\ SessionOf(sent.c.store, currentSession).messages
                           = Append(SessionOf(store, currentSession).messages,
                                    Last(sent.c.messages))
                     /\ OthersUntouched(store, sent.c.store, currentSession)
        /\ \A i \in Pending : \A r \in Arrivals :
              LET late == queryNext(cleared, i, r).c
                  timely == queryNext(Here, i, r).c
              IN  /\ late.messages = <<cleared.messages[1], Last(timely.messages)>>
                  /\ late.store = timely.store
                  /\ late.isLoading = timely.isLoading
        /\ \A i \in Pending :
              LET late == queryError(cleared, i).c
                  timely == queryError(Here, i).c
              IN  /\ late.messages = <<cleared.messages[1], Last(timely.messages)>>
                  /\ late.store = timely.store

\* the chat was cleared while a question of the current session was awaited;
\* its answer arrived afterwards and the session holds both
C25_Witness ==
    /\ ~isLoading
    /\ currentSession # NoSession
    /\ Len(messages) = 2
    /\ messages[1] = Cleared
    /\ messages[2].audio = "audio_ok"
    /\ Len(SessionOf(store, currentSession).messages) = 2
    /\ SessionOf(store, currentSession).messages[2].content = messages[2].content

\* C26: for line and bar and every non-empty sequence of records, each series
\* drawn has exactly as many values as the chart has labels, so that value i
\* of a series belongs to label i.
C26_ValuesMatchLabels ==
    \A c \in Comps :
        (Renders(c, {"line", "bar"}) /\ components[c].data # <<>>)
            => LET drawn == Rendered(c).data
               IN  \A k \in 1..Len(drawn.datasets) :
                      Len(drawn.datasets[k].data) = Len(drawn.labels)

====
